---- MODULE Spec2Model ----
(***************************************************************************)
(* Model of RAG/models/generation.py: the two chain builders               *)
(* generate_chain and generate_chain_with_balanced_retrieval, and the      *)
(* invocation of the runnable each of them returns.                        *)
(*                                                                         *)
(* The retriever, the databases and the language model are collaborators;  *)
(* they are deterministic stubs fixed in the initial state.  The runnable  *)
(* composition operators (|, RunnableParallel, RunnablePassthrough,        *)
(* .assign) are modelled by what they do: a RunnableParallel submits each   *)
(* of its branches to a thread pool and waits for all of them, so branches  *)
(* that call collaborators interleave.                                      *)
(***************************************************************************)
EXTENDS Integers, Sequences, FiniteSets, TLC

(* ------------------------------ bounds --------------------------------- *)

\* longest database list of a pipeline that is invoked repeatedly
MaxRepeatDbs == 1

\* number of invocations of a pipeline that is invoked repeatedly
MaxInvocations == 2

(* --------------------------- program constants ------------------------- *)

\* k=5, the builder's default retrieval count
DefaultK == 5

\* the six fields of class PartySummaries
PartySummaries == {"cdu", "spd", "gruene", "linke", "fdp", "afd"}

\* the separator of "\n\n".join(...)
Separator == <<"\n", "\n">>

(* ------------------------------ inputs --------------------------------- *)

Questions == {"Q1", "Q2"}

\* what a caller hands to chain.invoke: the plain string, or an object
\* (a dict) with a question field
StrInput(q) == [form |-> "str", q |-> q]
ObjInput(q) == [form |-> "obj", q |-> q]
Inputs == {StrInput(q) : q \in Questions} \cup {ObjInput(q) : q \in Questions}

\* the values of the output_parser argument the callers try
ParserArgs == {"json", "str", "xml"}

\* the values of k the callers try
Ks == {DefaultK, 1}

\* the database objects, and the source_type attribute of each
DBs == {1, 2, 3}
SourceType(d) == <<"debates", "manifesto", "manifesto">>[d]
DbText(d) == <<"A", "B", "C">>[d]

RECURSIVE SeqsUpTo(_)
SeqsUpTo(n) ==
    IF n = 0 THEN {<<>>}
    ELSE LET shorter == SeqsUpTo(n - 1)
         IN shorter \cup {Append(s, d) : s \in {t \in shorter : Len(t) = n - 1}, d \in DBs}

Distinct(s) == \A i, j \in 1..Len(s) : i # j => s[i] # s[j]

\* the non-empty lists of distinct database objects, in every order
DbLists == {s \in SeqsUpTo(Cardinality(DBs)) : Len(s) > 0 /\ Distinct(s)}
RepeatDbLists == {s \in DbLists : Len(s) <= MaxRepeatDbs}

(* ------------------------- collaborator stubs -------------------------- *)

\* db.build_context(query, k) -> text
BuildContextStub(d, query, k) ==
    IF query.q = "Q1" THEN <<DbText(d)>>
    ELSE IF d = 2 THEN <<>>
    ELSE <<DbText(d), DbText(d)>>

\* db.get_documents_for_each_party(query, k) -> mapping party -> documents
GetDocumentsStub(d, query, k) == [db |-> d, query |-> query, k |-> k]

\* retriever.invoke(query) -> context
RetrieverStub(query) == <<"doc", query.q>>

\* the kinds of reply the model stub gives
LlmKinds == {"six", "five", "plain", "raise"}

\* llm.invoke(prompt) -> raw text; the reply is tied to the prompt it answers
LlmReply(kind, prompt) ==
    [type   |-> "text",
     json   |-> kind \in {"six", "five"},
     fields |-> IF kind = "six" THEN [p \in PartySummaries |-> <<"position", p>>]
                ELSE IF kind = "five"
                     THEN [p \in PartySummaries \ {"afd"} |-> <<"position", p>>]
                     ELSE <<>>,
     prompt |-> prompt]

\* the one collaborator call that raises, if any
NoFailure == [op |-> "none", db |-> 0]
Failures ==
    {[op |-> "retriever", db |-> 0]}
    \cup {[op |-> o, db |-> d] :
            o \in {"build_context", "get_documents_for_each_party"}, d \in DBs}

(* ------------------- pure steps of the two builders -------------------- *)

\* a builder that falls back to the text parser instead of raising
SelectParserLenient(op) ==
    IF op = "json" THEN "json" ELSE "str"

\* the if / elif / else over output_parser: the parser selected, or the
\* ValueError("output_parser must be 'json' or 'str'")
SelectParser(op) ==
    IF op = "json" THEN "json"
    ELSE IF op = "str" THEN "str"
    ELSE "ValueError"

\* question_prompt: the template, with {format_instructions} appended and
\* pre-filled in "json" mode only
QuestionPrompt(template, parser) ==
    [template |-> template, format_instructions |-> parser = "json"]

\* question_prompt applied to a mapping holding question and context
FormatPrompt(qp, question, context) ==
    [template            |-> qp.template,
     format_instructions |-> qp.format_instructions,
     question            |-> question,
     context             |-> context]

\* {"question": RunnablePassthrough()}: the input, whole, under the key question
WrapQuestion(inp) == [question |-> inp]

\* a lambda that reads the question field of the caller's object
QuestionOfField(x) == StrInput(x.question.q)

\* lambda x: x["question"]
QuestionOf(x) == x.question

\* a comprehension that walks the list from its end
NextDbReversed(dbs, idx) == dbs[Len(dbs) - idx]

\* for db in dbs: the database of the next call, idx calls made so far
NextDb(dbs, idx) == dbs[idx + 1]

\* a join with a single newline between the texts
RECURSIVE JoinContextsNewline(_)
JoinContextsNewline(texts) ==
    IF Len(texts) = 0 THEN <<>>
    ELSE IF Len(texts) = 1 THEN texts[1]
    ELSE texts[1] \o <<"\n">> \o JoinContextsNewline(Tail(texts))

\* "\n\n".join(texts)
RECURSIVE JoinContexts(_)
JoinContexts(texts) ==
    IF Len(texts) = 0 THEN <<>>
    ELSE IF Len(texts) = 1 THEN texts[1]
    ELSE texts[1] \o Separator \o JoinContexts(Tail(texts))

\* d[key] = value of the dict comprehension building docs
DictPut(d, key, value) ==
    [x \in DOMAIN d \cup {key} |-> IF x = key THEN value ELSE d[x]]

\* StrOutputParser: the raw text, as it is
StrOutputParser(raw) == [status |-> "ok", value |-> raw]

\* JsonOutputParser(pydantic_object=PartySummaries): the JSON text parsed to an
\* object; pydantic_object only feeds get_format_instructions
JsonOutputParser(raw) ==
    IF raw.json
    THEN [status |-> "ok", value |-> [type |-> "object", fields |-> raw.fields]]
    ELSE [status |-> "error",
          value  |-> [error |-> "OutputParserException", at |-> NoFailure]]

\* the last stage of the chain the builder returns: output_parser, except in
\* rag_chain_from_docs (generate_chain, verbose), which ends in StrOutputParser()
AnswerParser(p) ==
    IF p.chain = "single" /\ p.flag THEN "str" ELSE p.parser

ApplyParser(parser, raw) ==
    IF parser = "json" THEN JsonOutputParser(raw) ELSE StrOutputParser(raw)

\* a retrieval step that goes on with the texts it has when a later
\* build_context call fails
ParallelErrorPartial(cb, db) ==
    IF cb.failed /\ cb.acc = <<>>
    THEN [status |-> "error", value |-> [error |-> "RetrievalError", at |-> cb.at]]
    ELSE IF db.failed
         THEN [status |-> "error", value |-> [error |-> "RetrievalError", at |-> db.at]]
         ELSE [status |-> "none", value |-> <<>>]

\* the error a RunnableParallel step raises: the first failed branch in key
\* order (context before docs)
ParallelError(cb, db) ==
    IF cb.failed THEN [status |-> "error", value |-> [error |-> "RetrievalError", at |-> cb.at]]
    ELSE IF db.failed THEN [status |-> "error", value |-> [error |-> "RetrievalError", at |-> db.at]]
    ELSE [status |-> "none", value |-> <<>>]

\* a verbose mapping whose context is overwritten by a formatted copy of what
\* the retriever returned
ChainResultFormatted(p, inp, context, docs, answer) ==
    IF p.chain = "single"
    THEN IF p.flag
         THEN [context |-> <<"formatted">> \o context, question |-> inp,
               answer |-> answer]
         ELSE answer
    ELSE IF p.flag
         THEN [question |-> inp, context |-> context, docs |-> docs, answer |-> answer]
         ELSE [question |-> inp, answer |-> answer]

\* the mapping the invoked chain returns
ChainResult(p, inp, context, docs, answer) ==
    IF p.chain = "single"
    THEN IF p.flag
         THEN [context |-> context, question |-> inp, answer |-> answer]
         ELSE answer
    ELSE IF p.flag
         THEN [question |-> QuestionOf(WrapQuestion(inp)), context |-> context,
               docs |-> docs, answer |-> answer]
         ELSE [question |-> inp, answer |-> answer]

(* ------------------------------- state --------------------------------- *)

VARIABLES
    failing,      \* stub: the collaborator call that raises
    llmStub,      \* stub: the kind of reply the model gives
    called,       \* the builder called and the output_parser argument it was given
    built,        \* "none" | "pipeline" | "ValueError": how the builder call ended
    pipeline,     \* what the built chain captured: chain, parser, prompt, flag, dbs, k
    pc,           \* position of the invocation in the chain
    input,        \* the value handed to invoke
    ctxB,         \* the context branch of the retrieval step
    docB,         \* the docs branch of the retrieval step
    context,      \* the context handed to the prompt
    prompt,       \* the filled prompt handed to the model
    raw,          \* the model's raw output
    outcome,      \* what invoke returned or raised
    calls,        \* collaborator calls of this invocation, in the order issued
    prev,         \* the previous invocation: input, outcome, calls
    invocations,  \* invocations finished
    budget        \* invocations the caller makes

vars == <<failing, llmStub, called, built, pipeline, pc, input, ctxB, docB, context,
          prompt, raw, outcome, calls, prev, invocations, budget>>

stubs == <<failing, llmStub, budget>>
config == <<called, built, pipeline>>

NoPipeline == [chain |-> "none", parser |-> "none", prompt |-> <<>>, flag |-> FALSE,
               dbs |-> <<>>, k |-> 0]
NoOutcome == [status |-> "none", value |-> <<>>]
NoPrev == [input |-> StrInput("none"), outcome |-> NoOutcome, calls |-> <<>>]
FreshCtx == [idx |-> 0, busy |-> FALSE, failed |-> FALSE, at |-> NoFailure, acc |-> <<>>]
FreshDoc == [idx |-> 0, busy |-> FALSE, failed |-> FALSE, at |-> NoFailure, acc |-> <<>>]
NoPrompt == [template |-> "none", format_instructions |-> FALSE,
             question |-> StrInput("none"), context |-> <<>>]
NoRaw == [type |-> "none", json |-> FALSE, fields |-> <<>>, prompt |-> NoPrompt]

Call(op, d, query, k) == [op |-> op, db |-> d, query |-> query, k |-> k]

\* the stubs: a model of any kind behind collaborators that work, or one
\* failing collaborator call in front of a model that answers
Stubs ==
    \/ failing = NoFailure /\ llmStub \in LlmKinds
    \/ failing \in Failures /\ llmStub = "six"

NotCalled == [builder |-> "none", output_parser |-> "none"]

Start ==
    /\ called = NotCalled
    /\ built = "none"
    /\ pipeline = NoPipeline
    /\ pc = "idle"
    /\ input = StrInput("none")
    /\ ctxB = FreshCtx
    /\ docB = FreshDoc
    /\ context = <<>>
    /\ prompt = NoPrompt
    /\ raw = NoRaw
    /\ outcome = NoOutcome
    /\ calls = <<>>
    /\ prev = NoPrev
    /\ invocations = 0

\* a pipeline is built and invoked once, over every stub
Init ==
    /\ Stubs
    /\ budget = 1
    /\ Start

\* a pipeline is built and invoked repeatedly, over fewer stubs
InitRepeat ==
    /\ failing \in {NoFailure, [op |-> "build_context", db |-> 1]}
    /\ llmStub \in {"six", "plain", "raise"}
    /\ budget = MaxInvocations
    /\ Start

invocation == <<pc, input, ctxB, docB, context, prompt, raw, outcome, calls, prev,
                invocations>>

(* ------------------------------ builders ------------------------------- *)

\* generate_chain(retriever, llm, output_parser, verbose)
GenerateChain(op, verbose) ==
    /\ built = "none"
    /\ called' = [builder |-> "generate_chain", output_parser |-> op]
    /\ LET parser == SelectParser(op)
       IN IF parser = "ValueError"
          THEN /\ built' = "ValueError"
               /\ pipeline' = pipeline
          ELSE /\ built' = "pipeline"
               /\ pipeline' = [chain  |-> "single",
                               parser |-> parser,
                               prompt |-> QuestionPrompt("single", parser),
                               flag   |-> verbose,
                               dbs    |-> <<>>,
                               k      |-> 0]
    /\ UNCHANGED <<stubs, invocation>>

\* generate_chain_with_balanced_retrieval(dbs, llm, output_parser, k, return_context)
GenerateChainWithBalancedRetrieval(dbs, op, k, return_context) ==
    /\ built = "none"
    /\ called' = [builder |-> "generate_chain_with_balanced_retrieval",
                  output_parser |-> op]
    /\ LET parser == SelectParser(op)
       IN IF parser = "ValueError"
          THEN /\ built' = "ValueError"
               /\ pipeline' = pipeline
          ELSE /\ built' = "pipeline"
               /\ pipeline' = [chain  |-> "balanced",
                               parser |-> parser,
                               prompt |-> QuestionPrompt("balanced", parser),
                               flag   |-> return_context,
                               dbs    |-> dbs,
                               k      |-> k]
    /\ UNCHANGED <<stubs, invocation>>

(* ----------------------------- invocation ------------------------------ *)

\* the query every retrieval lambda reads: x["question"] of the wrapped input
\* (balanced chain), or the input itself (the retriever of generate_chain)
Query(p, inp) ==
    IF p.chain = "balanced" THEN QuestionOf(WrapQuestion(inp)) ELSE inp

\* the list a branch iterates over
CtxCalls(p) == IF p.chain = "balanced" THEN Len(p.dbs) ELSE 1
DocCalls(p) == IF p.chain = "balanced" /\ p.flag THEN Len(p.dbs) ELSE 0

BranchDone(b, n) == ~b.busy /\ (b.failed \/ b.idx = n)

\* an invocation that appends its texts to a list shared by all invocations
InvokeSharingTexts(inp) ==
    /\ built = "pipeline"
    /\ pc = "idle"
    /\ invocations < budget
    /\ pc' = "retrieve"
    /\ input' = inp
    /\ ctxB' = [FreshCtx EXCEPT !.acc = ctxB.acc]
    /\ docB' = FreshDoc
    /\ context' = <<>>
    /\ prompt' = NoPrompt
    /\ raw' = NoRaw
    /\ outcome' = NoOutcome
    /\ calls' = <<>>
    /\ UNCHANGED <<stubs, config, prev, invocations>>

\* chain.invoke(inp)
Invoke(inp) ==
    /\ built = "pipeline"
    /\ pc = "idle"
    /\ invocations < budget
    /\ pc' = "retrieve"
    /\ input' = inp
    /\ ctxB' = FreshCtx
    /\ docB' = FreshDoc
    /\ context' = <<>>
    /\ prompt' = NoPrompt
    /\ raw' = NoRaw
    /\ outcome' = NoOutcome
    /\ calls' = <<>>
    /\ UNCHANGED <<stubs, config, prev, invocations>>

\* "context": retriever of generate_chain: one call, returning or raising
RetrieverInvoke ==
    /\ pc = "retrieve"
    /\ pipeline.chain = "single"
    /\ ~ctxB.failed /\ ctxB.idx = 0
    /\ calls' = Append(calls, Call("retriever", 0, Query(pipeline, input), 0))
    /\ IF failing.op = "retriever"
       THEN ctxB' = [ctxB EXCEPT !.failed = TRUE, !.at = failing]
       ELSE ctxB' = [ctxB EXCEPT !.idx = 1,
                                 !.acc = <<RetrieverStub(Query(pipeline, input))>>]
    /\ UNCHANGED <<stubs, config, pc, input, docB, context, prompt, raw, outcome,
                   prev, invocations>>

\* [db.build_context(query=x["question"], k=k) for db in dbs]: the next call starts
BeginBuildContext ==
    /\ pc = "retrieve"
    /\ pipeline.chain = "balanced"
    /\ ~ctxB.busy /\ ~ctxB.failed /\ ctxB.idx < Len(pipeline.dbs)
    /\ ctxB' = [ctxB EXCEPT !.busy = TRUE]
    /\ calls' = Append(calls, Call("build_context", NextDb(pipeline.dbs, ctxB.idx),
                                   Query(pipeline, input), pipeline.k))
    /\ UNCHANGED <<stubs, config, pc, input, docB, context, prompt, raw, outcome,
                   prev, invocations>>

\* ... and returns its text, or raises and ends the comprehension
EndBuildContext ==
    /\ pc = "retrieve"
    /\ ctxB.busy
    /\ LET d == NextDb(pipeline.dbs, ctxB.idx)
       IN IF failing = [op |-> "build_context", db |-> d]
          THEN ctxB' = [ctxB EXCEPT !.busy = FALSE, !.failed = TRUE, !.at = failing]
          ELSE ctxB' = [ctxB EXCEPT
                          !.busy = FALSE,
                          !.idx = @ + 1,
                          !.acc = Append(@, BuildContextStub(d, Query(pipeline, input),
                                                             pipeline.k))]
    /\ UNCHANGED <<stubs, config, pc, input, docB, context, prompt, raw, outcome,
                   calls, prev, invocations>>

\* {db.source_type: db.get_documents_for_each_party(...) for db in dbs}: the next
\* call starts
BeginGetDocuments ==
    /\ pc = "retrieve"
    /\ pipeline.chain = "balanced" /\ pipeline.flag
    /\ ~docB.busy /\ ~docB.failed /\ docB.idx < Len(pipeline.dbs)
    /\ docB' = [docB EXCEPT !.busy = TRUE]
    /\ calls' = Append(calls, Call("get_documents_for_each_party",
                                   NextDb(pipeline.dbs, docB.idx),
                                   Query(pipeline, input), pipeline.k))
    /\ UNCHANGED <<stubs, config, pc, input, ctxB, context, prompt, raw, outcome,
                   prev, invocations>>

\* ... and returns its documents, stored under db.source_type, or raises
EndGetDocuments ==
    /\ pc = "retrieve"
    /\ docB.busy
    /\ LET d == NextDb(pipeline.dbs, docB.idx)
       IN IF failing = [op |-> "get_documents_for_each_party", db |-> d]
          THEN docB' = [docB EXCEPT !.busy = FALSE, !.failed = TRUE, !.at = failing]
          ELSE docB' = [docB EXCEPT
                          !.busy = FALSE,
                          !.idx = @ + 1,
                          !.acc = DictPut(@, SourceType(d),
                                          GetDocumentsStub(d, Query(pipeline, input),
                                                           pipeline.k))]
    /\ UNCHANGED <<stubs, config, pc, input, ctxB, context, prompt, raw, outcome,
                   calls, prev, invocations>>

RetrievalDone ==
    /\ BranchDone(ctxB, CtxCalls(pipeline))
    /\ BranchDone(docB, DocCalls(pipeline))

\* the retrieval step raised: the error leaves invoke
RetrievalRaises ==
    /\ pc = "retrieve"
    /\ RetrievalDone
    /\ ParallelError(ctxB, docB).status = "error"
    /\ outcome' = ParallelError(ctxB, docB)
    /\ pc' = "returned"
    /\ UNCHANGED <<stubs, config, input, ctxB, docB, context, prompt, raw, calls,
                   prev, invocations>>

\* the retrieval step returned: ... | question_prompt | llm; the model call starts
FormatPromptAndCallModel ==
    /\ pc = "retrieve"
    /\ RetrievalDone
    /\ ParallelError(ctxB, docB).status = "none"
    /\ LET ctx == IF pipeline.chain = "balanced" THEN JoinContexts(ctxB.acc)
                  ELSE ctxB.acc[1]
           filled == FormatPrompt(pipeline.prompt, Query(pipeline, input), ctx)
       IN /\ context' = ctx
          /\ prompt' = filled
          /\ calls' = Append(calls, Call("llm", 0, filled.question, 0))
    /\ pc' = "model"
    /\ UNCHANGED <<stubs, config, input, ctxB, docB, raw, outcome, prev, invocations>>

\* the model call raised: the error leaves invoke
ModelRaises ==
    /\ pc = "model"
    /\ llmStub = "raise"
    /\ outcome' = [status |-> "error",
                   value  |-> [error |-> "ModelError", at |-> NoFailure]]
    /\ pc' = "returned"
    /\ UNCHANGED <<stubs, config, input, ctxB, docB, context, prompt, raw, calls,
                   prev, invocations>>

\* the model call returned its raw output
ModelReturns ==
    /\ pc = "model"
    /\ llmStub # "raise"
    /\ raw' = LlmReply(llmStub, prompt)
    /\ pc' = "parse"
    /\ UNCHANGED <<stubs, config, input, ctxB, docB, context, prompt, outcome, calls,
                   prev, invocations>>

\* ... | output_parser, and the result mapping; a parse error leaves invoke
ParseOutput ==
    /\ pc = "parse"
    /\ LET parsed == ApplyParser(AnswerParser(pipeline), raw)
       IN IF parsed.status = "error"
          THEN outcome' = parsed
          ELSE outcome' = [status |-> "ok",
                           value  |-> ChainResult(pipeline, input, context, docB.acc,
                                                  parsed.value)]
    /\ pc' = "returned"
    /\ UNCHANGED <<stubs, config, input, ctxB, docB, context, prompt, raw, calls,
                   prev, invocations>>

\* invoke is over; the caller may invoke the chain again
Return ==
    /\ pc = "returned"
    /\ prev' = [input |-> input, outcome |-> outcome, calls |-> calls]
    /\ invocations' = invocations + 1
    /\ pc' = "idle"
    /\ UNCHANGED <<stubs, config, input, ctxB, docB, context, prompt, raw, outcome,
                   calls>>

Build(lists) ==
    \/ \E op \in ParserArgs, verbose \in BOOLEAN : GenerateChain(op, verbose)
    \/ \E dbs \in lists, op \in ParserArgs, k \in Ks, rc \in BOOLEAN :
          GenerateChainWithBalancedRetrieval(dbs, op, k, rc)

Run ==
    \/ \E inp \in Inputs : Invoke(inp)
    \/ RetrieverInvoke
    \/ BeginBuildContext
    \/ EndBuildContext
    \/ BeginGetDocuments
    \/ EndGetDocuments
    \/ RetrievalRaises
    \/ FormatPromptAndCallModel
    \/ ModelRaises
    \/ ModelReturns
    \/ ParseOutput
    \/ Return

Next == Build(DbLists) \/ Run

NextRepeat == Build(RepeatDbLists) \/ Run

Spec == Init /\ [][Next]_vars

SpecRepeat == InitRepeat /\ [][NextRepeat]_vars

(* ------------------------------ properties ----------------------------- *)

Balanced == built = "pipeline" /\ pipeline.chain = "balanced"
Single == built = "pipeline" /\ pipeline.chain = "single"
Returned == pc = "returned"
Succeeded == pc = "returned" /\ outcome.status = "ok"
PromptFilled == pc \in {"model", "parse"} \/ (pc = "returned" /\ prompt # NoPrompt)

\* the calls of this invocation made to one operation of the collaborators
CallsTo(log, op) == SelectSeq(log, LAMBDA c : c.op = op)
CallsOn(log, op, d) == SelectSeq(log, LAMBDA c : c.op = op /\ c.db = d)
RetrievalOps == {"retriever", "build_context", "get_documents_for_each_party"}

\* the answer inside what invoke returned
Answer ==
    IF pipeline.chain = "single" /\ ~pipeline.flag THEN outcome.value
    ELSE outcome.value.answer

RECURSIVE TextsInOrder(_, _, _, _)
TextsInOrder(dbs, question, k, n) ==
    IF n = 0 THEN <<>>
    ELSE TextsInOrder(dbs, question, k, n - 1)
         \o BuildContextStub(dbs[n], question, k)
         \o (IF n < Len(dbs) THEN <<"\n", "\n">> ELSE <<>>)

\* C2: in the balanced chain, in both return_context modes, the context filled
\* into the prompt is the build_context(question, k) texts of the databases in
\* list order with exactly "\n\n" between them; A, B, C give "A\n\nB\n\nC".
C2_ContextJoinedInOrder ==
    Balanced /\ PromptFilled =>
        /\ prompt.context
             = TextsInOrder(pipeline.dbs, input, pipeline.k, Len(pipeline.dbs))
        /\ context = prompt.context
        /\ (pipeline.dbs = <<1, 2, 3>> /\ input.q = "Q1") =>
              prompt.context = <<"A", "\n", "\n", "B", "\n", "\n", "C">>
        /\ (Succeeded /\ pipeline.flag) => outcome.value.context = prompt.context

C2_Witness ==
    /\ Balanced /\ pc = "model"
    /\ pipeline.dbs = <<3, 1, 2>>
    /\ input = StrInput("Q2")
    /\ prompt.context = <<"C", "C", "\n", "\n", "A", "A", "\n", "\n">>

\* C3: with return_context=True the keys of docs are exactly the databases'
\* source_type values and every database's get_documents_for_each_party result
\* is in docs under its source_type, none lost.
C3_DocsHoldEveryDatabase ==
    (Balanced /\ pipeline.flag /\ Succeeded) =>
        /\ DOMAIN outcome.value.docs
             = {SourceType(pipeline.dbs[i]) : i \in 1..Len(pipeline.dbs)}
        /\ \A i \in 1..Len(pipeline.dbs) :
              outcome.value.docs[SourceType(pipeline.dbs[i])]
                = GetDocumentsStub(pipeline.dbs[i], input, pipeline.k)

\* C4: in the single-retriever chain the answer is the raw model output for
\* the prompt filled with the question and the retriever's context, parsed by
\* the parser selected at build time, with verbose=False and with verbose=True:
\* the raw text in "str" mode, the structured object in "json" mode.
C4_AnswerParsedBySelectedParser ==
    (Single /\ Returned /\ raw # NoRaw) =>
        LET reply == LlmReply(llmStub,
                              FormatPrompt(QuestionPrompt("single", called.output_parser),
                                           input, RetrieverStub(input)))
        IN /\ called.output_parser = "str" =>
                 /\ outcome.status = "ok"
                 /\ Answer = reply
           /\ called.output_parser = "json" =>
                 IF reply.json
                 THEN /\ outcome.status = "ok"
                      /\ Answer = [type |-> "object", fields |-> reply.fields]
                 ELSE outcome.status = "error"

\* C5: in the single-retriever chain built with verbose=True the result's
\* question is the input unchanged, its context is what the retriever returned
\* for it, and that context, from the one retrieval made, is the one in the
\* prompt the answer was produced from.
C5_VerboseResultCarriesRetrieval ==
    (Single /\ pipeline.flag /\ Succeeded) =>
        /\ outcome.value.question = input
        /\ outcome.value.context = RetrieverStub(input)
        /\ prompt.context = outcome.value.context
        /\ prompt.question = input
        /\ raw = LlmReply(llmStub, prompt)
        /\ outcome.value.answer.prompt = prompt
        /\ Len(CallsTo(calls, "retriever")) = 1

C5_Witness ==
    /\ Single /\ pipeline.flag /\ Succeeded
    /\ input = StrInput("Q2")
    /\ outcome.value.context = <<"doc", "Q2">>

\* C6: in the balanced chain a failed retrieval call of any one database
\* aborts the invocation: the error reaches the caller unchanged, no result
\* is returned, the model is not called and the failed call is not retried.
C6_RetrievalFailureAborts ==
    (Balanced /\ pc # "idle" /\ (ctxB.failed \/ docB.failed)) =>
        /\ pc \in {"retrieve", "returned"}
        /\ CallsTo(calls, "llm") = <<>>
        /\ prompt = NoPrompt /\ raw = NoRaw
        /\ Len(CallsOn(calls, failing.op, failing.db)) = 1
        /\ Returned =>
              outcome = [status |-> "error",
                         value  |-> [error |-> "RetrievalError", at |-> failing]]

C6_Witness ==
    /\ Balanced /\ Returned
    /\ pipeline.dbs = <<3, 2, 1>>
    /\ failing = [op |-> "build_context", db |-> 2]
    /\ ctxB.failed /\ Len(ctxB.acc) = 1
    /\ outcome.status = "error"

\* C8: in "json" mode a returned answer has the six PartySummaries fields with
\* the values the model emitted, and a response that does not match the schema
\* (a missing party field) gives a parse error instead of a result.
C8_JsonAnswerMatchesSchema ==
    (Balanced /\ pipeline.parser = "json" /\ Returned /\ raw # NoRaw) =>
        /\ outcome.status = "ok" =>
              /\ DOMAIN Answer.fields = PartySummaries
              /\ Answer.fields = raw.fields
        /\ ~(raw.json /\ DOMAIN raw.fields = PartySummaries) =>
              outcome.status = "error"

\* the previous invocation of this pipeline had the same input
SameInputAgain == Returned /\ invocations >= 1 /\ prev.input = input

C9_OneRetrievalCallAtATime ==
    (Balanced /\ pc # "idle") =>
        /\ ~(ctxB.busy /\ docB.busy)
        /\ pc \in {"model", "parse"} =>
              (~ctxB.busy /\ ctxB.idx = Len(pipeline.dbs))

\* the databases a branch has called so far are the first ones of the list, in
\* list order, each call issued after the one before it returned
InListOrder(op, b) ==
    LET made == CallsTo(calls, op)
    IN /\ Len(made) = b.idx + (IF b.busy \/ b.failed THEN 1 ELSE 0)
       /\ Len(made) <= Len(pipeline.dbs)
       /\ \A i \in 1..Len(made) : made[i].db = pipeline.dbs[i]

\* C9, amended: the build_context calls are issued one at a time in list
\* order, and so are the get_documents_for_each_party calls; with
\* return_context=False no two retrieval calls are in flight at once, with
\* return_context=True a build_context call and a
\* get_documents_for_each_party call may be; the one model call starts only
\* after every retrieval call has returned.
C9_EachBranchInListOrder ==
    (Balanced /\ pc # "idle") =>
        /\ InListOrder("build_context", ctxB)
        /\ InListOrder("get_documents_for_each_party", docB)
        /\ ~pipeline.flag =>
              (~docB.busy /\ CallsTo(calls, "get_documents_for_each_party") = <<>>)
        /\ (pc \in {"model", "parse"} \/ CallsTo(calls, "llm") # <<>>) =>
              /\ ~ctxB.busy /\ ctxB.idx = Len(pipeline.dbs)
              /\ ~docB.busy /\ docB.idx = DocCalls(pipeline)
              /\ Len(CallsTo(calls, "llm")) = 1
              /\ calls[Len(calls)].op = "llm"

C9_Witness ==
    /\ Balanced /\ pipeline.flag
    /\ pipeline.dbs = <<2, 3, 1>>
    /\ ctxB.busy /\ ctxB.idx = 2
    /\ docB.busy /\ docB.idx = 0

\* C10 as stated: invoked with an object whose question field is Q, the
\* pipeline sends the text Q to the retriever or the databases and fills Q
\* into the prompt, as it does when invoked with the plain string Q.
C10_ObjectInputIsUnwrapped ==
    (built = "pipeline" /\ pc # "idle") =>
        /\ \A i \in 1..Len(calls) : calls[i].query = StrInput(input.q)
        /\ PromptFilled => prompt.question = StrInput(input.q)

\* C10, amended: the pipeline passes its input on whole: invoked with the
\* plain string Q it sends Q as the query and fills Q into the prompt; invoked
\* with an object whose question field is Q it sends the object itself, not
\* the text Q, as the query and fills the object into the prompt.
C10_InputPassedOnWhole ==
    (built = "pipeline" /\ pc # "idle") =>
        /\ \A i \in 1..Len(calls) : calls[i].query = input
        /\ PromptFilled => prompt.question = input
        /\ (input.form = "obj" /\ calls # <<>>) => calls[1].query # StrInput(input.q)
        /\ (Succeeded /\ (pipeline.flag \/ pipeline.chain = "balanced")) =>
              outcome.value.question = input

C10_Witness ==
    /\ Balanced /\ pipeline.flag /\ pc = "model"
    /\ input = ObjInput("Q1")
    /\ prompt.question = ObjInput("Q1")
    /\ Len(calls) >= 3

====
